---- MODULE Spec2Model ----
(***************************************************************************)
(* Model of src/src/chapter-10.rs: five "largest element" finders and the  *)
(* driver main.  A slice is a sequence; a position is a 0-based index; a   *)
(* reference into a slice (&list[p]) is the position p it points at.      *)
(* i32 and char values are integers (a char is its code point); an f64 is  *)
(* a record [nan, num], the element type the PartialOrd bound admits whose *)
(* order is partial.                                                       *)
(***************************************************************************)
EXTENDS Integers, Sequences, FiniteSets, TLC

VARIABLES ty, list, frame, frame2, mpc, stdout

vars == <<ty, list, frame, frame2, mpc, stdout>>

\* Longest input slice explored by the direct calls.
MaxLen == 3

----------------------------------------------------------------------------
\* Element types and values

NaN == [nan |-> TRUE, num |-> 0]

F64(x) == [nan |-> FALSE, num |-> x]

Types == {"i32", "char", "f64"}

Values(t) ==
    CASE t = "i32" -> {-3, 0, 5}
      [] t = "char" -> {97, 109, 121}
      [] t = "f64" -> {NaN, F64(1), F64(2)}

Slices(t, n) == UNION {[1..k -> Values(t)] : k \in 0..n}

\* PartialOrd::gt of the element type: `a > b`.
gt(t, a, b) ==
    IF t = "f64" THEN ~a.nan /\ ~b.nan /\ a.num > b.num ELSE a > b

\* Equality of two elements (`a == b`; NaN equals nothing), used to state
\* the properties only.
eq(t, a, b) ==
    IF t = "f64" THEN ~a.nan /\ ~b.nan /\ a.num = b.num ELSE a = b

\* The element at 0-based position p.
at(l, p) == l[p + 1]

\* The bounds-checked slice index `list[p]` / `&list[p]`: ok is FALSE when
\* the access panics, pos is the position read and val its value.
index_unchecked(l, p) ==
    IF p < Len(l) THEN [ok |-> TRUE, pos |-> p, val |-> at(l, p)]
                  ELSE [ok |-> TRUE, pos |-> p, val |-> 0]

index(l, p) ==
    IF p < Len(l) THEN [ok |-> TRUE, pos |-> p, val |-> at(l, p)]
                  ELSE [ok |-> FALSE, pos |-> p, val |-> 0]

\* `list.iter()`: the positions the iterator yields, in order.
iter_skip_first(l) == [k \in 1..(IF Len(l) = 0 THEN 0 ELSE Len(l) - 1) |-> k]

iter(l) == [k \in 1..Len(l) |-> k - 1]

----------------------------------------------------------------------------
\* The five finders: the initialisation of `largest` and the loop body.
\* A by-value finder holds a value in `largest`, a by-reference finder a
\* position.  `item` is the position the iterator yielded.

Fns == {"largest_i32", "largest_char_copy", "largest_char_ref",
        "largest_generic", "largest_generic_copy"}

ByRef(fn) == fn \in {"largest_char_ref", "largest_generic"}

ValidFns(t) ==
    CASE t = "i32" -> {"largest_i32", "largest_generic", "largest_generic_copy"}
      [] t = "char" -> {"largest_char_copy", "largest_char_ref",
                        "largest_generic", "largest_generic_copy"}
      [] t = "f64" -> {"largest_generic", "largest_generic_copy"}

largest_i32_init_zero(l) == [ok |-> TRUE, largest |-> 0]

largest_i32_init(l) ==
    LET r == index(l, 0) IN [ok |-> r.ok, largest |-> r.val]

largest_i32_body_lt(l, item, largest) ==
    IF at(l, item) < largest THEN at(l, item) ELSE largest

largest_i32_body(l, item, largest) ==
    IF at(l, item) > largest THEN at(l, item) ELSE largest

largest_char_copy_init(l) ==
    LET r == index(l, 0) IN [ok |-> r.ok, largest |-> r.val]

largest_char_copy_body_lt(l, item, largest) ==
    IF at(l, item) < largest THEN at(l, item) ELSE largest

largest_char_copy_body(l, item, largest) ==
    IF at(l, item) > largest THEN at(l, item) ELSE largest

largest_char_ref_init(l) ==
    LET r == index(l, 0) IN [ok |-> r.ok, largest |-> r.pos]

largest_char_ref_body_ge(l, item, largest) ==
    IF at(l, item) >= at(l, largest) THEN item ELSE largest

largest_char_ref_body(l, item, largest) ==
    IF at(l, item) > at(l, largest) THEN item ELSE largest

largest_generic_init(l) ==
    LET r == index(l, 0) IN [ok |-> r.ok, largest |-> r.pos]

largest_generic_body_lt(t, l, item, largest) ==
    IF gt(t, at(l, largest), at(l, item)) THEN item ELSE largest

largest_generic_body_ge(t, l, item, largest) ==
    IF ~gt(t, at(l, largest), at(l, item)) THEN item ELSE largest

largest_generic_body(t, l, item, largest) ==
    IF gt(t, at(l, item), at(l, largest)) THEN item ELSE largest

largest_generic_copy_init(l) ==
    LET r == index(l, 0) IN [ok |-> r.ok, largest |-> r.val]

largest_generic_copy_body_always(t, l, item, largest) == at(l, item)

largest_generic_copy_body(t, l, item, largest) ==
    IF gt(t, at(l, item), largest) THEN at(l, item) ELSE largest

\* `let mut largest = ...` of finder fn.
init(fn, l) ==
    CASE fn = "largest_i32" -> largest_i32_init(l)
      [] fn = "largest_char_copy" -> largest_char_copy_init(l)
      [] fn = "largest_char_ref" -> largest_char_ref_init(l)
      [] fn = "largest_generic" -> largest_generic_init(l)
      [] fn = "largest_generic_copy" -> largest_generic_copy_init(l)

\* One pass through the loop body of finder fn.
body(fn, t, l, item, largest) ==
    CASE fn = "largest_i32" -> largest_i32_body(l, item, largest)
      [] fn = "largest_char_copy" -> largest_char_copy_body(l, item, largest)
      [] fn = "largest_char_ref" -> largest_char_ref_body(l, item, largest)
      [] fn = "largest_generic" -> largest_generic_body(t, l, item, largest)
      [] fn = "largest_generic_copy" ->
             largest_generic_copy_body(t, l, item, largest)

\* The value a candidate or a result stands for: a by-reference finder's
\* position is dereferenced.
deref(fn, l, x) == IF ByRef(fn) THEN at(l, x) ELSE x

----------------------------------------------------------------------------
\* A call frame: the finder, where it is, its candidate, how many items the
\* iterator has yielded, the positions compared so far, the returned value.

Idle == [fn |-> "none", pc |-> "idle", largest |-> 0, it |-> 0,
         scanned |-> <<>>, ret |-> 0]

Entered(fn) == [fn |-> fn, pc |-> "call", largest |-> 0, it |-> 0,
                scanned |-> <<>>, ret |-> 0]

\* `let mut largest = list[0];`
CallF(f, l) ==
    LET r == init(f.fn, l) IN
    IF r.ok THEN [f EXCEPT !.pc = "loop", !.largest = r.largest]
            ELSE [f EXCEPT !.pc = "panic"]

\* `for item in list.iter() { if item > largest { largest = item; } }`,
\* one iteration.
IterateF(f, t, l) ==
    LET item == iter(l)[f.it + 1] IN
    [f EXCEPT !.largest = body(f.fn, t, l, item, f.largest),
              !.it = f.it + 1,
              !.scanned = Append(f.scanned, item)]

\* The tail expression `largest`.
ReturnF(f) == [f EXCEPT !.pc = "done", !.ret = f.largest]

MoreItems(f, l) == f.pc = "loop" /\ f.it < Len(iter(l))

Exhausted(f, l) == f.pc = "loop" /\ f.it >= Len(iter(l))

\* A whole call as a function of its input: the result, or a panic.
RECURSIVE fold(_, _, _, _, _)
fold(fn, t, l, k, largest) ==
    IF k >= Len(iter(l)) THEN largest
    ELSE fold(fn, t, l, k + 1, body(fn, t, l, iter(l)[k + 1], largest))

finder(fn, t, l) ==
    LET r == init(fn, l) IN
    IF r.ok THEN [ok |-> TRUE, ret |-> fold(fn, t, l, 0, r.largest)]
            ELSE [ok |-> FALSE, ret |-> 0]

----------------------------------------------------------------------------
\* The driver

main_calls == <<
    [fn |-> "largest_i32", ty |-> "i32",
     list |-> <<34, 50, 25, 100, 65>>, label |-> "largest_i32"],
    [fn |-> "largest_char_copy", ty |-> "char",
     list |-> <<121, 109, 97, 113>>, label |-> "largest_char_copy"],
    [fn |-> "largest_char_ref", ty |-> "char",
     list |-> <<121, 109, 97, 113>>, label |-> "largest_char_ref"],
    [fn |-> "largest_generic", ty |-> "char",
     list |-> <<121, 109, 97, 113>>, label |-> "largest_generic"],
    [fn |-> "largest_generic", ty |-> "i32",
     list |-> <<34, 50, 25, 100, 65>>, label |-> "largest_generic"],
    [fn |-> "largest_generic_copy", ty |-> "char",
     list |-> <<121, 109, 97, 113>>, label |-> "largest_generic"],
    [fn |-> "largest_generic_copy", ty |-> "i32",
     list |-> <<34, 50, 25, 100, 65>>, label |-> "largest_generic"] >>

\* Display of a char, for the characters the model uses.
char_display(c) ==
    CASE c = 97 -> "a" [] c = 109 -> "m" [] c = 113 -> "q" [] c = 121 -> "y"

\* The `{}` of println!: decimal for an i32, the character for a char.
display(t, v) == IF t = "i32" THEN ToString(v) ELSE char_display(v)

println(label, t, v) == label \o " is " \o display(t, v)

----------------------------------------------------------------------------
\* Initial states: the program entry (main, mpc = 1), or a direct call of
\* one finder on a slice of at most MaxLen elements (mpc = 0).

InitMain ==
    /\ mpc = 1
    /\ ty = "i32"
    /\ list = <<>>
    /\ frame = Idle

InitCall ==
    /\ mpc = 0
    /\ ty \in Types
    /\ list \in Slices(ty, MaxLen)
    /\ \E fn \in ValidFns(ty) : frame = Entered(fn)

Init ==
    /\ InitMain \/ InitCall
    /\ frame2 = Idle
    /\ stdout = <<>>

\* `let list = vec![...]; let result = finder(&list);`: main enters a finder.
main_call ==
    /\ mpc \in 1..Len(main_calls)
    /\ frame.pc = "idle"
    /\ ty' = main_calls[mpc].ty
    /\ list' = main_calls[mpc].list
    /\ frame' = Entered(main_calls[mpc].fn)
    /\ UNCHANGED <<frame2, mpc, stdout>>

\* `println!("<label> is {}", result);` once the finder has returned.
main_println ==
    /\ mpc \in 1..Len(main_calls)
    /\ frame.pc = "done"
    /\ stdout' = Append(stdout,
                    println(main_calls[mpc].label, ty,
                            deref(frame.fn, list, frame.ret)))
    /\ frame' = Idle
    /\ mpc' = mpc + 1
    /\ UNCHANGED <<ty, list, frame2>>

Call ==
    /\ frame.pc = "call"
    /\ frame2.pc = "idle"
    /\ frame' = CallF(frame, list)
    /\ UNCHANGED <<ty, list, frame2, mpc, stdout>>

IterateInPlace ==
    /\ MoreItems(frame, list)
    /\ frame2.pc = "idle"
    /\ frame' = IterateF(frame, ty, list)
    /\ list' = IF gt(ty, at(list, frame.it), at(list, 0))
               THEN [list EXCEPT ![1] = at(list, frame.it),
                                 ![frame.it + 1] = at(list, 0)]
               ELSE list
    /\ UNCHANGED <<ty, frame2, mpc, stdout>>

Iterate ==
    /\ MoreItems(frame, list)
    /\ frame2.pc = "idle"
    /\ frame' = IterateF(frame, ty, list)
    /\ UNCHANGED <<ty, list, frame2, mpc, stdout>>

Return ==
    /\ Exhausted(frame, list)
    /\ frame2.pc = "idle"
    /\ frame' = ReturnF(frame)
    /\ UNCHANGED <<ty, list, frame2, mpc, stdout>>

Next == main_call \/ main_println \/ Call \/ Iterate \/ Return

Spec == Init /\ [][Next]_vars

----------------------------------------------------------------------------
\* Two finders stepped side by side over the same non-empty slice.

InitPair ==
    /\ mpc = 0
    /\ stdout = <<>>
    /\ ty \in Types
    /\ list \in Slices(ty, MaxLen) \ {<<>>}
    /\ \E f1 \in ValidFns(ty) : \E f2 \in ValidFns(ty) \ {f1} :
          frame = Entered(f1) /\ frame2 = Entered(f2)

PairCall ==
    /\ frame.pc = "call" /\ frame2.pc = "call"
    /\ frame' = CallF(frame, list)
    /\ frame2' = CallF(frame2, list)
    /\ UNCHANGED <<ty, list, mpc, stdout>>

PairIterate ==
    /\ MoreItems(frame, list) /\ MoreItems(frame2, list)
    /\ frame' = IterateF(frame, ty, list)
    /\ frame2' = IterateF(frame2, ty, list)
    /\ UNCHANGED <<ty, list, mpc, stdout>>

PairReturn ==
    /\ Exhausted(frame, list) /\ Exhausted(frame2, list)
    /\ frame' = ReturnF(frame)
    /\ frame2' = ReturnF(frame2)
    /\ UNCHANGED <<ty, list, mpc, stdout>>

NextPair == PairCall \/ PairIterate \/ PairReturn

SpecPair == InitPair /\ [][NextPair]_vars

----------------------------------------------------------------------------
\* Definitions used to state the properties

Positions(l) == 0..(Len(l) - 1)

\* Every two elements of l are ordered or equal.
IsTotal(t, l) ==
    \A p \in Positions(l) : \A q \in Positions(l) :
        gt(t, at(l, p), at(l, q)) \/ gt(t, at(l, q), at(l, p))
            \/ eq(t, at(l, p), at(l, q))

RECURSIVE Insert(_, _, _)
Insert(t, x, s) ==
    IF Len(s) = 0 THEN <<x>>
    ELSE IF gt(t, Head(s), x) THEN <<x>> \o s
    ELSE <<Head(s)>> \o Insert(t, x, Tail(s))

RECURSIVE SortAsc(_, _)
SortAsc(t, l) ==
    IF Len(l) = 0 THEN <<>> ELSE Insert(t, Head(l), SortAsc(t, Tail(l)))

TrueMax(t, l) == SortAsc(t, l)[Len(l)]

Perms(l) ==
    {[k \in 1..Len(l) |-> l[f[k]]] :
        f \in {g \in [1..Len(l) -> 1..Len(l)] :
                  \A a \in 1..Len(l) : \A b \in 1..Len(l) :
                      g[a] = g[b] => a = b}}

\* The positions holding a value that no element exceeds and every element
\* is comparable with.
MaxPositions(t, l) ==
    {p \in Positions(l) :
        \A q \in Positions(l) :
            gt(t, at(l, p), at(l, q)) \/ eq(t, at(l, p), at(l, q))}

Least(S) == CHOOSE p \in S : \A q \in S : p <= q

Running == frame.pc \in {"loop", "done"}

Returned == frame.pc = "done"

Result == deref(frame.fn, list, frame.ret)

Candidate == deref(frame.fn, list, frame.largest)

----------------------------------------------------------------------------
\* C1: on a non-empty totally ordered slice every finder returns the true
\* maximum, the last element of the slice sorted in ascending order.
C1_Correctness ==
    (Returned /\ IsTotal(ty, list)) => eq(ty, Result, TrueMax(ty, list))

C1_Witness ==
    /\ Returned /\ mpc = 0 /\ Len(list) = 3 /\ IsTotal(ty, list)
    /\ gt(ty, at(list, 1), at(list, 0))
    /\ gt(ty, at(list, 1), at(list, 2))
    /\ eq(ty, Result, at(list, 1))

\* C2: when the maximum occurs at more than one position, a by-reference
\* finder returns a reference to the first position holding it.
C2_FirstOccurrence ==
    (Returned /\ ByRef(frame.fn) /\ Cardinality(MaxPositions(ty, list)) > 1)
        => frame.ret = Least(MaxPositions(ty, list))

C2_Witness ==
    /\ Returned /\ ByRef(frame.fn) /\ mpc = 0 /\ Len(list) = 3
    /\ MaxPositions(ty, list) = {1, 2}
    /\ frame.ret = 1

\* C3: a call on an empty slice panics at the initialisation of `largest`:
\* no comparison is made and nothing is returned.
C3_EmptyPanics ==
    (Len(list) = 0 /\ frame.pc \notin {"idle", "call"})
        => (frame.pc = "panic" /\ frame.scanned = <<>> /\ frame.it = 0)

C3_Witness == Len(list) = 0 /\ frame.pc = "panic" /\ frame.fn \in Fns

\* C4 as stated: for every comparable element type, partial orders included,
\* every permutation of the input yields the same returned value.
C4_PermutationAnyOrder ==
    Returned =>
        \A P \in Perms(list) :
            deref(frame.fn, P, finder(frame.fn, ty, P).ret) = Result

\* C4 amended: when every two elements of the input are ordered or equal,
\* every permutation of the input yields the same returned value.
C4_PermutationTotalOrder ==
    (Returned /\ IsTotal(ty, list)) =>
        \A P \in Perms(list) :
            /\ finder(frame.fn, ty, P).ok
            /\ deref(frame.fn, P, finder(frame.fn, ty, P).ret) = Result

C4_Witness ==
    /\ Returned /\ mpc = 0 /\ Len(list) = 3 /\ IsTotal(ty, list)
    /\ frame.fn = "largest_generic"
    /\ \E P \in Perms(list) :
          /\ finder(frame.fn, ty, P).ret # frame.ret
          /\ deref(frame.fn, P, finder(frame.fn, ty, P).ret) = Result

\* C5: on a one-element slice [x] every finder returns x, a by-reference
\* finder as a reference to position 0.
C5_SingleElement ==
    (frame.pc \notin {"idle", "call"} /\ Len(list) = 1) =>
        /\ frame.pc # "panic"
        /\ Returned => Result = at(list, 0)
        /\ (Returned /\ ByRef(frame.fn)) => frame.ret = 0

C5_Witness ==
    /\ Returned /\ Len(list) = 1 /\ frame.scanned = <<0>>
    /\ Result = at(list, 0)

\* C6: main writes one line per finder invocation, in invocation order, of
\* the form "<label> is <value>", with 100 for the numeric slice and y for
\* the character slice, and invokes all five finders.
ExpectedStdout ==
    << "largest_i32 is 100", "largest_char_copy is y",
       "largest_char_ref is y", "largest_generic is y",
       "largest_generic is 100", "largest_generic is y",
       "largest_generic is 100" >>

C6_MainOutput ==
    mpc >= 1 =>
        /\ mpc <= Len(ExpectedStdout) + 1
        /\ stdout = SubSeq(ExpectedStdout, 1, mpc - 1)
        /\ frame.pc # "panic"
        /\ frame.pc # "idle" =>
              /\ list \in {<<34, 50, 25, 100, 65>>, <<121, 109, 97, 113>>}
              /\ frame.fn = main_calls[mpc].fn
        /\ mpc = Len(ExpectedStdout) + 1 =>
              {main_calls[k].fn : k \in 1..(mpc - 1)} = Fns

C6_Witness == mpc = 8 /\ Len(stdout) = 7 /\ frame.pc = "idle"

\* C7: while a call is in progress and after it has returned, the input
\* slice and its element type stay as they were; a loop iteration changes
\* nothing of the frame but the candidate and the scan position.
C7_InputUnchanged ==
    [][frame.pc # "idle" =>
          /\ list' = list
          /\ ty' = ty
          /\ frame.pc = "loop" /\ frame'.pc = "loop" =>
                /\ frame'.fn = frame.fn
                /\ frame'.ret = frame.ret]_vars

C7_Witness ==
    /\ Returned /\ mpc = 0 /\ Len(list) = 3
    /\ frame.fn = "largest_char_copy"
    /\ frame.ret = at(list, 2)
    /\ frame.ret # at(list, 0)
    /\ frame.ret # at(list, 1)

\* C8 as stated: the scan covers positions 1..n-1 only, so a call makes
\* n-1 comparisons and never compares the first element.
C8_ScansRemainingOnly ==
    Returned =>
        /\ Len(frame.scanned) = Len(list) - 1
        /\ \A k \in 1..Len(frame.scanned) : frame.scanned[k] # 0

\* C8 amended: `largest` starts as the first element and the scan covers
\* all n positions 0..n-1 left to right, so a call makes n comparisons, the
\* first of them on the first element.
C8_ScansAll ==
    Running =>
        /\ frame.it = 0 => Candidate = at(list, 0)
        /\ Len(frame.scanned) = frame.it
        /\ \A k \in 1..Len(frame.scanned) : frame.scanned[k] = k - 1
        /\ Returned => Len(frame.scanned) = Len(list)

C8_Witness ==
    /\ Returned /\ mpc = 0 /\ frame.scanned = <<0, 1, 2>> /\ Len(list) = 3

\* C9: two finders stepped side by side over the same slice are at the same
\* point, have compared the same positions, hold candidates of equal value
\* after each element, and return equal values.
C9_VariantsAgree ==
    /\ frame.pc = frame2.pc
    /\ frame.it = frame2.it
    /\ frame.scanned = frame2.scanned
    /\ frame.pc \in {"loop", "done"} =>
          deref(frame.fn, list, frame.largest)
              = deref(frame2.fn, list, frame2.largest)
    /\ frame.pc = "done" =>
          deref(frame.fn, list, frame.ret) = deref(frame2.fn, list, frame2.ret)

C9_Witness ==
    /\ frame.pc = "done" /\ frame2.pc = "done"
    /\ ~ByRef(frame.fn) /\ ByRef(frame2.fn)
    /\ Len(list) = 3
    /\ frame2.ret = 2
    /\ frame.ret = at(list, 2)

\* C10: once k >= 1 elements have been visited (the first is visited by the
\* initialisation), the candidate is an element of list[0..k-1], no element
\* of that prefix exceeds it, and a by-reference candidate is the first
\* position of the prefix holding that maximum.
Visited == IF frame.it = 0 THEN 1 ELSE frame.it

C10_LoopInvariant ==
    (Running /\ IsTotal(ty, list)) =>
        /\ Visited \in 1..Len(list)
        /\ \E j \in 0..(Visited - 1) :
              /\ eq(ty, at(list, j), Candidate)
              /\ ByRef(frame.fn) => frame.largest = j
        /\ \A q \in 0..(Visited - 1) : ~gt(ty, at(list, q), Candidate)
        /\ ByRef(frame.fn) =>
              \A q \in 0..(frame.largest - 1) : gt(ty, Candidate, at(list, q))

C10_Witness ==
    /\ frame.pc = "loop" /\ mpc = 0 /\ frame.it = 2 /\ Len(list) = 3
    /\ ByRef(frame.fn) /\ frame.largest = 1
    /\ gt(ty, at(list, 2), at(list, 1))

====
